---- MODULE Spec2Model ----
(***************************************************************************)
(* A model of solana-agent-kit: the wallet/config store, the JSON-RPC      *)
(* client, the price and quote clients, the balance aggregator, the        *)
(* balance / price / quote / swap / send commands, the transaction builder *)
(* and the staking and quote integrations.  The repository                 *)
(* holds several revisions of the same layer side by side; the model keeps *)
(* them apart by an implementation tag:                                    *)
(*   "kit"    src/src/index.js (client) with src/src/cli.js and            *)
(*            src/src/wallet.js (two revisions, "kitA" and "kitB")         *)
(*   "script" src/scripts/index.js                                         *)
(* All revisions share one configuration directory on disk.                *)
(***************************************************************************)
EXTENDS Integers, Sequences, FiniteSets, TLC

VARIABLES
    dirExists,    \* CONFIG_DIR exists
    walletFile,   \* wallet.json: [st, publicKey, secretKey, mode]
    configFile,   \* config.json: [st, rpc, commitment]
    pc,           \* per invocation slot: position inside the running command
    inv,          \* per invocation slot: the running / last command
    nextKey,      \* source of fresh key material (crypto.randomBytes, Keypair.generate)
    writes,       \* history: keys written to wallet.json since it last was absent
    rpc,          \* one rpcCall / client.call in flight
    pl,           \* one getTokenPrice / getPrice lookup
    bal,          \* one balance report run
    qt,           \* one quote / swap command
    tx            \* one send / stake operation

vars ==
    <<dirExists, walletFile, configFile, pc, inv, nextKey, writes, rpc, pl, bal, qt, tx>>

walletVars == <<dirExists, walletFile, configFile, pc, inv, nextKey, writes>>

(***************************************************************************)
(* Bounds of the model.                                                    *)
(***************************************************************************)
MaxKeys == 3

\* largest native balance (in lamports) and largest token uiAmount the provider reports
MaxAmount == 1

\* how long (seconds) an unanswered request is followed
MaxClock == 32

\* largest price the price provider quotes
MaxPrice == 2

\* how many registry entries, in declaration order, a balance run is followed through
RegistrySize == 3

Procs == {"p1", "p2"}

(***************************************************************************)
(* Config / wallet store.                                                  *)
(***************************************************************************)
None == "none"

\* a field a JSON object does not have
Missing == "missing"

\* fs.chmodSync(WALLET_PATH, 0o600) and writeFileSync(..., { mode: 0o600 })
OwnerOnly == "0600"

\* mode of a file created by writeFileSync without a mode option (0o666 & ~umask)
DefaultMode == "0644"

DEFAULT_RPC == "https://api.mainnet-beta.solana.com"

CustomRpc == "https://rpc.example"

\* the fields config.json may hold
ConfigFields == {"rpc", "rpcUrl", "network", "commitment"}

\* no config.json
NoConfig == [st |-> "absent", rpc |-> Missing, rpcUrl |-> Missing, network |-> Missing,
             commitment |-> Missing]

\* a config.json holding the object { rpc, rpcUrl, network, commitment }
Config(endpoint, rpcUrl, network, commitment) ==
    [st |-> "record", rpc |-> endpoint, rpcUrl |-> rpcUrl, network |-> network,
     commitment |-> commitment]

\* config written by createWallet of wallet.js (first revision), also the default of
\* its loadConfig
DefaultConfigKitA == Config(DEFAULT_RPC, Missing, Missing, "confirmed")

\* config written by commands.init of scripts/index.js, also the default of its
\* loadConfig
DefaultConfigScript == Config(DEFAULT_RPC, Missing, Missing, Missing)

\* defaultConfig of loadConfig of wallet.js (second revision)
DefaultConfigKitB == Config(Missing, DEFAULT_RPC, "mainnet-beta", "confirmed")

\* a config the user saved earlier with saveConfig
CustomConfig == Config(CustomRpc, Missing, Missing, "finalized")

\* a partial config the user saved: saveConfig({ rpc: ... })
RpcOnlyConfig == Config(CustomRpc, Missing, Missing, Missing)

\* configs a user saves
SavedConfigs == {CustomConfig, RpcOnlyConfig}

WalletImpls == {"kitA", "kitB", "script"}

\* the public address derived from key material (keys are 1, 2, ...; 0 is no key)
Address(k) == <<"addr", k>>

NoAddress == Address(0)

\* no wallet.json
NoWallet == [st |-> "absent", publicKey |-> NoAddress, secretKey |-> 0, mode |-> None]

\* wallet.json opened for writing (created or truncated), nothing written yet
EmptyWallet(mode) == [st |-> "empty", publicKey |-> NoAddress, secretKey |-> 0,
                      mode |-> mode]

\* the record createWallet / importWallet / saveWallet serialises into wallet.json
WalletRecord(k, mode) == [st |-> "record", publicKey |-> Address(k), secretKey |-> k,
                          mode |-> mode]

IdleInv == [op |-> None, impl |-> None, validArg |-> TRUE, key |-> 0, outcome |-> None,
            reported |-> NoAddress, orphan |-> FALSE, config |-> NoConfig]

\* fs.existsSync(WALLET_PATH)
existsWallet == walletFile.st # "absent"

\* JSON.parse(fs.readFileSync(WALLET_PATH)) succeeds
parsesWallet == walletFile.st = "record"

Finish(p, outcome, reported) ==
    /\ pc' = [pc EXCEPT ![p] = "idle"]
    /\ inv' = [inv EXCEPT ![p].outcome = outcome, ![p].reported = reported]

\* A command starts in an invocation slot.  overlap = FALSE keeps invocations
\* from running side by side (one CLI command after the other).
StartInit(p, overlap) ==
    /\ pc[p] = "idle"
    /\ overlap \/ \A q \in Procs : pc[q] = "idle"
    /\ nextKey <= MaxKeys
    /\ \E impl \in WalletImpls, op \in {"create", "import"}, valid \in BOOLEAN :
         /\ op = "import" => impl = "kitB"
         /\ op = "create" => valid
         /\ inv' = [inv EXCEPT ![p] = [IdleInv EXCEPT !.op = op, !.impl = impl,
                                                     !.validArg = valid]]
    /\ pc' = [pc EXCEPT ![p] = "check"]
    /\ UNCHANGED <<dirExists, walletFile, configFile, nextKey, writes, rpc, pl, bal, qt, tx>>

\* the existence test that guards the write
WalletExistsCheckSkipped(impl) == FALSE

WalletExistsCheck(impl) ==
    IF impl = "script" THEN parsesWallet ELSE existsWallet

\* createWallet / importWallet: ensureConfigDir(); if (fs.existsSync(WALLET_PATH)) throw
\* commands.init (script): if (loadWallet()) { print; return }
InitCheck(p) ==
    /\ pc[p] = "check"
    /\ dirExists' = (IF inv[p].impl = "script" THEN dirExists ELSE TRUE)
    /\ IF inv[p].impl = "script" /\ existsWallet /\ ~parsesWallet
       THEN \* loadWallet: JSON.parse throws, the command rejects
            /\ Finish(p, "ParseError", NoAddress)
            /\ UNCHANGED nextKey
       ELSE IF WalletExistsCheck(inv[p].impl)
       THEN /\ Finish(p, "AlreadyExists", NoAddress)
            /\ UNCHANGED nextKey
       ELSE IF ~inv[p].validArg
       THEN \* importWallet: the argument is no secret key, Keypair.fromSecretKey throws
            /\ Finish(p, "InvalidKey", NoAddress)
            /\ UNCHANGED nextKey
       ELSE \* key material is generated (or decoded from the import argument)
            /\ inv' = [inv EXCEPT ![p].key = nextKey]
            /\ nextKey' = nextKey + 1
            /\ pc' = [pc EXCEPT ![p] = "open"]
    /\ UNCHANGED <<walletFile, configFile, writes, rpc, pl, bal, qt, tx>>

\* mode given to writeFileSync for wallet.json
CreateMode(impl) == IF impl = "kitB" THEN OwnerOnly ELSE DefaultMode

\* fs.writeFileSync(WALLET_PATH, ...), first half: open with O_CREAT | O_TRUNC
\* (saveWallet of the script creates the directory first)
InitOpen(p) ==
    /\ pc[p] = "open"
    /\ dirExists' = TRUE
    /\ walletFile' = EmptyWallet(IF existsWallet THEN walletFile.mode
                                  ELSE CreateMode(inv[p].impl))
    /\ inv' = [inv EXCEPT ![p].orphan = FALSE]
    /\ pc' = [pc EXCEPT ![p] = "write"]
    /\ UNCHANGED <<configFile, nextKey, writes, rpc, pl, bal, qt, tx>>

\* fs.writeFileSync(WALLET_PATH, ...), second half: the content reaches the file
InitWrite(p) ==
    /\ pc[p] = "write"
    /\ IF inv[p].orphan
       THEN UNCHANGED <<walletFile, writes>>   \* the file was unlinked meanwhile
       ELSE /\ walletFile' = WalletRecord(inv[p].key, walletFile.mode)
            /\ writes' = Append(writes, inv[p].key)
    /\ IF inv[p].impl = "kitB"
       THEN Finish(p, "created", Address(inv[p].key))
       ELSE /\ pc' = [pc EXCEPT ![p] = "chmod"]
            /\ UNCHANGED inv
    /\ UNCHANGED <<dirExists, configFile, nextKey, rpc, pl, bal, qt, tx>>

\* fs.chmodSync(WALLET_PATH, 0o600)
InitChmod(p) ==
    /\ pc[p] = "chmod"
    /\ IF existsWallet
       THEN /\ walletFile' = [walletFile EXCEPT !.mode = OwnerOnly]
            /\ pc' = [pc EXCEPT ![p] = "config"]
            /\ UNCHANGED inv
       ELSE \* ENOENT: the file was deleted meanwhile
            /\ Finish(p, "FsError", NoAddress)
            /\ UNCHANGED walletFile
    /\ UNCHANGED <<dirExists, configFile, nextKey, writes, rpc, pl, bal, qt, tx>>

\* fs.writeFileSync(CONFIG_PATH, ...) / saveConfig({ rpc: DEFAULT_RPC }), then the
\* address is returned / printed
InitConfig(p) ==
    /\ pc[p] = "config"
    /\ configFile' = (IF inv[p].impl = "script" THEN DefaultConfigScript
                      ELSE DefaultConfigKitA)
    /\ Finish(p, "created", Address(inv[p].key))
    /\ UNCHANGED <<dirExists, walletFile, nextKey, writes, rpc, pl, bal, qt, tx>>

\* a delete that leaves the file in place
unlinkKeepsFile(file) == file

\* fs.unlinkSync(WALLET_PATH)
unlinkSync(file) == NoWallet

\* deleteWallet: if (fs.existsSync(WALLET_PATH)) { fs.unlinkSync(WALLET_PATH) }
DeleteWallet(p, overlap) ==
    /\ pc[p] = "idle"
    /\ overlap \/ \A q \in Procs : pc[q] = "idle"
    /\ walletFile' = (IF existsWallet THEN unlinkSync(walletFile) ELSE walletFile)
    /\ writes' = <<>>
    /\ inv' = [q \in Procs |->
                 IF q = p
                 THEN [IdleInv EXCEPT !.op = "delete", !.impl = "kitB",
                                      !.outcome = IF existsWallet THEN "deleted" ELSE "noop"]
                 ELSE IF pc[q] = "write" THEN [inv[q] EXCEPT !.orphan = TRUE] ELSE inv[q]]
    /\ UNCHANGED <<dirExists, configFile, pc, nextKey, rpc, pl, bal, qt, tx>>

\* saveConfig(cfg) by the user before or between commands: the file becomes cfg as
\* given
SaveCustomConfig ==
    /\ \A q \in Procs : pc[q] = "idle"
    /\ \E cfg \in SavedConfigs :
         /\ configFile # cfg
         /\ configFile' = cfg
    /\ dirExists' = TRUE
    /\ UNCHANGED <<walletFile, pc, inv, nextKey, writes, rpc, pl, bal, qt, tx>>

\* what loadWallet gives back: the record, null ("absent"), or a raised parse error
Loaded(st, publicKey) == [st |-> st, publicKey |-> publicKey]

\* loadWallet (wallet.js first revision, scripts/index.js):
\*   if (!fs.existsSync(WALLET_PATH)) return null; return JSON.parse(readFileSync(...))
\* loadWallet (wallet.js second revision):
\*   if (!fs.existsSync(WALLET_PATH)) return null;
\*   try { JSON.parse ...; return { publicKey, keypair } }
\*   catch (e) { console.error(...); return null }
loadWallet(impl, file) ==
    CASE file.st = "absent" -> Loaded("absent", NoAddress)
      [] file.st = "record" -> Loaded("record", file.publicKey)
      [] OTHER -> IF impl = "kitB" THEN Loaded("absent", NoAddress)
                  ELSE Loaded("CorruptState", NoAddress)

\* a caller (getAddress, a command) loads the wallet
LoadWallet(p, overlap) ==
    /\ pc[p] = "idle"
    /\ overlap \/ \A q \in Procs : pc[q] = "idle"
    /\ \E impl \in WalletImpls :
         LET r == loadWallet(impl, walletFile)
         IN  inv' = [inv EXCEPT ![p] = [IdleInv EXCEPT !.op = "loadWallet", !.impl = impl,
                                                     !.outcome = r.st,
                                                     !.reported = r.publicKey]]
    /\ UNCHANGED <<dirExists, walletFile, configFile, pc, nextKey, writes, rpc, pl, bal, qt, tx>>

\* { ...defaultConfig, ...fileConfig }
Merge(defaultConfig, fileConfig) ==
    [f \in ConfigFields \cup {"st"} |->
        IF f = "st" THEN "record"
        ELSE IF fileConfig[f] # Missing THEN fileConfig[f] ELSE defaultConfig[f]]

\* loadConfig (wallet.js first revision): the parsed file, or { rpc, commitment }
\* loadConfig (wallet.js second revision): { ...defaultConfig, ...parsed file }
\* loadConfig (scripts/index.js): the parsed file, or { rpc: DEFAULT_RPC }
loadConfig(impl, file) ==
    CASE impl = "kitA" -> IF file.st = "record" THEN file ELSE DefaultConfigKitA
      [] impl = "kitB" -> IF file.st = "record" THEN Merge(DefaultConfigKitB, file)
                          ELSE DefaultConfigKitB
      [] OTHER -> IF file.st = "record" THEN file ELSE DefaultConfigScript

\* a caller loads the config; the second wallet.js revision creates the directory and
\* writes its default config when there is none
LoadConfig(p, overlap) ==
    /\ pc[p] = "idle"
    /\ overlap \/ \A q \in Procs : pc[q] = "idle"
    /\ \E impl \in WalletImpls :
         /\ inv' = [inv EXCEPT ![p] = [IdleInv EXCEPT !.op = "loadConfig", !.impl = impl,
                                         !.config = loadConfig(impl, configFile)]]
         /\ dirExists' = (dirExists \/ impl = "kitB")
         /\ configFile' = (IF impl = "kitB" /\ configFile.st = "absent"
                           THEN DefaultConfigKitB ELSE configFile)
    /\ UNCHANGED <<walletFile, pc, nextKey, writes, rpc, pl, bal, qt, tx>>

(***************************************************************************)
(* RPC client.                                                             *)
(***************************************************************************)
ClientImpls == {"kit", "script"}

LAMPORTS_PER_SOL == 1000000000

\* options.timeout of rpcCall (30000 ms), in seconds
RPC_TIMEOUT == 30

\* a display-unit number n / d; d = 0 is NaN
Num(n, d) == [num |-> n, den |-> d]

NaN == Num(0, 0)

Zero == Num(0, 1)

\* balance > 0, price ? ... (NaN and 0 are not)
Positive(q) == q.den # 0 /\ q.num > 0

\* one token account of a getTokenAccountsByOwner result:
\* account.data.parsed.info.tokenAmount.uiAmount, a number or null
Accounts == [uiAmount : 0..MaxAmount, isNull : {FALSE}] \cup {[uiAmount |-> 0, isNull |-> TRUE]}

AccountLists == {<<>>} \cup {<<a>> : a \in Accounts} \cup {<<a, b>> : a \in Accounts, b \in Accounts}

\* the result field of a response envelope
ResultOf(shape, value, accounts) == [shape |-> shape, value |-> value, accounts |-> accounts]

\* result: null, or the envelope has no result field
NullResult == ResultOf("null", 0, <<>>)

\* getBalance: { value: lamports }
BalanceResults == {ResultOf("value", n, <<>>) : n \in 0..MaxAmount}

\* getTokenAccountsByOwner: { value: [accounts] }
TokenResults == {ResultOf("accounts", 0, l) : l \in AccountLists}

RpcMessages == {"Invalid params", "Too many requests"}

\* the body of an HTTP response: text that does not parse, or a JSON-RPC envelope
\* whose error field is absent, null or an object (with or without a message)
Body(parses, error, message, result) ==
    [parses |-> parses, error |-> error, message |-> message, result |-> result]

Unparsable == Body(FALSE, "absent", Missing, NullResult)

Bodies(results) ==
    {Unparsable}
    \cup {Body(TRUE, e, Missing, r) : e \in {"absent", "null"}, r \in results \cup {NullResult}}
    \cup {Body(TRUE, "object", m, r) : m \in RpcMessages \cup {Missing},
                                       r \in results \cup {NullResult}}

\* the state of a promise: pending, resolved with a value, rejected with an Error
Pending == [st |-> "pending", value |-> NullResult, message |-> None]

Resolved(v) == [st |-> "resolved", value |-> v, message |-> None]

Rejected(m) == [st |-> "rejected", value |-> NullResult, message |-> m]

\* new Error(x).message
ErrorMessage(x) == IF x = Missing THEN "" ELSE x

\* a promise that takes the outcome of the latest resolve / reject call
SettleLast(promise, outcome) == outcome

\* resolve / reject on a promise: only the first call settles it
Settle(promise, outcome) == IF promise.st = "pending" THEN outcome ELSE promise

\* a client that returns the result whenever the envelope has one
callSettleResultFirst(body) ==
    IF ~body.parses THEN Rejected("SyntaxError")
    ELSE IF body.result # NullResult THEN Resolved(body.result)
    ELSE IF body.error = "object" THEN Rejected(ErrorMessage(body.message))
    ELSE Resolved(body.result)

\* call() / the 'end' handler of rpcCall: parse the body, then
\* if (json.error) throw new Error(json.error.message); return json.result
callSettle(body) ==
    IF ~body.parses THEN Rejected("SyntaxError")
    ELSE IF body.error = "object" THEN Rejected(ErrorMessage(body.message))
    ELSE Resolved(body.result)

\* what the transport does with one request
\*   response   the whole response arrives (body)
\*   transport  the connection fails before a response
\*   aborted    the connection closes after the response started, before its end
\*   silent     the provider never answers
TransportKinds == {"response", "transport", "aborted", "silent"}

Event(kind, body) == [kind |-> kind, body |-> body]

RpcEvents(results) ==
    {Event("response", b) : b \in Bodies(results)}
    \cup {Event(k, Unparsable) : k \in {"transport", "aborted", "silent"}}

\* the promise of call() / rpcCall once the transport has done `ev`
\*   kit:    fetch rejects on a failed connection, response.json() rejects on an
\*           aborted body; nothing bounds the wait
\*   script: req 'error' rejects, the 30 s timeout rejects, and no handler runs when
\*           the response closes before 'end'
call(impl, ev) ==
    CASE ev.kind = "response" -> callSettle(ev.body)
      [] ev.kind = "transport" -> Rejected("TransportError")
      [] ev.kind = "aborted" -> IF impl = "kit" THEN Rejected("TransportError") ELSE Pending
      [] ev.kind = "silent" -> IF impl = "kit" THEN Pending ELSE Rejected("Request timeout")

\* the outcome of a balance lookup: a promise whose value is a display-unit number
Returned(q) == [st |-> "resolved", balance |-> q, message |-> None]

Thrown(m) == [st |-> "rejected", balance |-> NaN, message |-> m]

StillPending == [st |-> "pending", balance |-> NaN, message |-> None]

\* a native lookup that answers 0 on every failure, in both revisions
getBalanceCaught(impl, promise) ==
    CASE promise.st = "pending" -> StillPending
      [] promise.st = "rejected" -> Returned(Zero)
      [] promise.st = "resolved" ->
            IF promise.value.shape = "value"
            THEN Returned(Num(promise.value.value, LAMPORTS_PER_SOL))
            ELSE Returned(Zero)

\* client.getBalance (kit): Number(result.value) / Number(LAMPORTS_PER_SOL), no try
\* getSolBalance (script): try { result.value / LAMPORTS_PER_SOL } catch { return 0 }
getBalance(impl, promise) ==
    CASE promise.st = "pending" -> StillPending
      [] promise.st = "rejected" ->
            IF impl = "kit" THEN Thrown(promise.message) ELSE Returned(Zero)
      [] promise.st = "resolved" ->
            IF promise.value.shape = "value"
            THEN Returned(Num(promise.value.value, LAMPORTS_PER_SOL))
            ELSE \* result is null: reading result.value throws a TypeError
                 IF impl = "kit" THEN Thrown("TypeError") ELSE Returned(Zero)

\* parseFloat(info.tokenAmount.uiAmount || 0) (kit), parseFloat(uiAmount) (script)
parseUiAmount(impl, account) ==
    IF account.isNull
    THEN IF impl = "kit" THEN Zero ELSE NaN
    ELSE Num(account.uiAmount, 1)

\* a token lookup that lets its failure escape
getTokenBalanceThrowing(impl, promise) ==
    CASE promise.st = "pending" -> StillPending
      [] promise.st = "rejected" -> Thrown(promise.message)
      [] promise.st = "resolved" ->
            IF promise.value.shape = "accounts"
            THEN IF Len(promise.value.accounts) > 0
                 THEN Returned(parseUiAmount(impl, promise.value.accounts[1]))
                 ELSE Returned(Zero)
            ELSE Thrown("TypeError")

\* sum of the parsed uiAmounts of a list of token accounts
RECURSIVE SumAccounts(_)
SumAccounts(accounts) ==
    IF accounts = <<>> THEN 0
    ELSE (IF Head(accounts).isNull THEN 0 ELSE Head(accounts).uiAmount)
         + SumAccounts(Tail(accounts))

\* a token lookup that adds up every account of the mint
getTokenBalanceSummed(impl, promise) ==
    CASE promise.st = "pending" -> StillPending
      [] promise.st = "rejected" -> Returned(Zero)
      [] promise.st = "resolved" ->
            IF promise.value.shape = "accounts"
            THEN Returned(Num(SumAccounts(promise.value.accounts), 1))
            ELSE Returned(Zero)

\* getTokenBalance (both): the first account's uiAmount, 0 without accounts, and
\* catch (e) { return 0 } around the whole lookup
getTokenBalance(impl, promise) ==
    CASE promise.st = "pending" -> StillPending
      [] promise.st = "rejected" -> Returned(Zero)
      [] promise.st = "resolved" ->
            IF promise.value.shape = "accounts"
            THEN IF Len(promise.value.accounts) > 0
                 THEN Returned(parseUiAmount(impl, promise.value.accounts[1]))
                 ELSE Returned(Zero)
            ELSE Returned(Zero)   \* result is null: TypeError, caught

\* the lookup failed: transport failure, RPC error, or a response that does not decode
LookupFailed(promise) ==
    \/ promise.st = "rejected"
    \/ promise.st = "resolved" /\ promise.value = NullResult

Wrappers == {"call", "getBalance", "getTokenBalance"}

\* what the caller of the wrapper gets
WrapperOutcome(impl, wrapper, promise) ==
    CASE wrapper = "getBalance" -> getBalance(impl, promise)
      [] wrapper = "getTokenBalance" -> getTokenBalance(impl, promise)
      [] OTHER -> [st |-> promise.st, balance |-> NaN, message |-> promise.message]

ResultsFor(wrapper) ==
    CASE wrapper = "getBalance" -> BalanceResults
      [] wrapper = "getTokenBalance" -> TokenResults
      [] OTHER -> BalanceResults \cup TokenResults

IdleRpc == [phase |-> "idle", impl |-> None, wrapper |-> None, promise |-> Pending,
            clock |-> 0, body |-> Unparsable, got |-> None, late |-> FALSE]

\* a request is issued: fetch(rpcUrl, ...) / https.request(options, ...)
RpcStart ==
    /\ rpc.phase = "idle"
    /\ \E impl \in ClientImpls, w \in Wrappers :
         rpc' = [IdleRpc EXCEPT !.phase = "inflight", !.impl = impl, !.wrapper = w]
    /\ UNCHANGED <<walletVars, pl, bal, qt, tx>>

\* the whole response arrives: response.json() / res 'end'
RpcRespond ==
    /\ rpc.phase = "inflight"
    /\ \E b \in Bodies(ResultsFor(rpc.wrapper)) :
         rpc' = [rpc EXCEPT !.phase = "closed", !.body = b, !.got = "response",
                            !.promise = Settle(rpc.promise, callSettle(b))]
    /\ UNCHANGED <<walletVars, pl, bal, qt, tx>>

\* the connection fails before a response: fetch rejects / req 'error'
RpcTransportError ==
    /\ rpc.phase = "inflight"
    /\ rpc' = [rpc EXCEPT !.phase = "closed", !.got = "transport",
                          !.promise = Settle(rpc.promise, Rejected("TransportError"))]
    /\ UNCHANGED <<walletVars, pl, bal, qt, tx>>

\* the connection closes after the response started: response.json() rejects (kit);
\* res 'aborted' / 'close' without 'end', for which rpcCall has no handler (script)
RpcAborted ==
    /\ rpc.phase = "inflight"
    /\ rpc' = [rpc EXCEPT !.phase = "closed", !.got = "aborted",
                          !.promise = IF rpc.impl = "kit"
                                      THEN Settle(rpc.promise, Rejected("TransportError"))
                                      ELSE rpc.promise]
    /\ UNCHANGED <<walletVars, pl, bal, qt, tx>>

\* a second passes without an answer; the script's socket timeout fires at RPC_TIMEOUT
RpcTick ==
    /\ rpc.phase = "inflight"
    /\ rpc.clock < MaxClock
    /\ rpc.impl = "script" => rpc.clock < RPC_TIMEOUT
    /\ rpc' = [rpc EXCEPT !.clock = rpc.clock + 1]
    /\ UNCHANGED <<walletVars, pl, bal, qt, tx>>

\* req.on('timeout', () => { req.destroy(); reject(new Error('Request timeout')) })
RpcTimeout ==
    /\ rpc.phase = "inflight"
    /\ rpc.impl = "script"
    /\ rpc.clock = RPC_TIMEOUT
    /\ rpc' = [rpc EXCEPT !.phase = "destroyed", !.got = "silent",
                          !.promise = Settle(rpc.promise, Rejected("Request timeout"))]
    /\ UNCHANGED <<walletVars, pl, bal, qt, tx>>

\* req.destroy() makes the request emit 'error' (socket hang up): req.on('error', reject)
RpcDestroyError ==
    /\ rpc.phase = "destroyed"
    /\ rpc' = [rpc EXCEPT !.phase = "closed",
                          !.promise = Settle(rpc.promise, Rejected("socket hang up"))]
    /\ UNCHANGED <<walletVars, pl, bal, qt, tx>>

\* handlers that run after the promise was settled by 'end' or 'error': a further
\* 'error' event (req.on('error', reject)), or the 'timeout' handler, which destroys
\* the request and rejects with 'Request timeout'
LateMessages == {"socket hang up", "Request timeout"}

RpcLateEvent ==
    /\ rpc.phase = "closed"
    /\ rpc.impl = "script"
    /\ rpc.got \in {"response", "transport"}
    /\ ~rpc.late
    /\ \E m \in LateMessages :
         rpc' = [rpc EXCEPT !.late = TRUE,
                            !.promise = Settle(rpc.promise, Rejected(m))]
    /\ UNCHANGED <<walletVars, pl, bal, qt, tx>>

(***************************************************************************)
(* Token registry and price client.                                        *)
(***************************************************************************)
\* Object.keys(TOKENS) in declaration order
TOKENS(impl) ==
    IF impl = "kit"
    THEN <<"SOL", "USDC", "USDT", "BONK", "JUP", "WIF", "PYTH">>
    ELSE <<"SOL", "USDC", "USDT", "BONK", "JUP", "WIF", "RAY", "PYTH">>

RegistrySymbols(impl) == {TOKENS(impl)[i] : i \in 1..Len(TOKENS(impl))}

\* symbols a caller may pass
SymbolInputs == {"SOL", "sol", "USDC", "Usdc", "bonk", "RAY", "ray", "PYTH", "DOGE", "doge", "msol"}

\* String.prototype.toUpperCase on the symbols above
toUpperCase(sym) ==
    CASE sym = "sol" -> "SOL"
      [] sym = "Usdc" -> "USDC"
      [] sym = "bonk" -> "BONK"
      [] sym = "ray" -> "RAY"
      [] sym = "doge" -> "DOGE"
      [] sym = "msol" -> "MSOL"
      [] sym = "price" -> "PRICE"
      [] OTHER -> sym

\* a lookup that falls back to the native token for unknown symbols
LookupTokenWithFallback(impl, tokenSymbol) ==
    IF toUpperCase(tokenSymbol) \in RegistrySymbols(impl)
    THEN toUpperCase(tokenSymbol) ELSE "SOL"

\* const token = TOKENS[tokenSymbol.toUpperCase()]: the registry key, or None
LookupToken(impl, tokenSymbol) ==
    IF toUpperCase(tokenSymbol) \in RegistrySymbols(impl)
    THEN toUpperCase(tokenSymbol) ELSE None

\* the body of a price response
\*   unparsable  not JSON            jsonNull  the JSON value null
\*   noData      no data field       noPrice   data[mint] without a price
\*   price       data[mint].price = n
PriceBody(shape, n) == [shape |-> shape, price |-> n]

PriceBodies ==
    {PriceBody(sh, 0) : sh \in {"unparsable", "jsonNull", "noData", "noPrice"}}
    \cup {PriceBody("price", n) : n \in 0..MaxPrice}

PriceEvents ==
    {Event("response", b) : b \in PriceBodies}
    \cup {Event(k, PriceBody("unparsable", 0)) : k \in {"transport", "aborted"}}

\* the outcome of a price lookup: a number, or null / undefined
PriceOf(n) == [st |-> "resolved", price |-> Num(n, 1), absent |-> "no"]

NoPrice(how) == [st |-> "resolved", price |-> NaN, absent |-> how]

PricePending == [st |-> "pending", price |-> NaN, absent |-> "no"]

\* `price ? ... : ...`: null, undefined and 0 are falsy
Truthy(p) == p.st = "resolved" /\ p.absent = "no" /\ Positive(p.price)

\* "unavailable"
Unavailable(p) == p.st = "resolved" /\ p.absent # "no"

\* getTokenPrice (kit): try { fetch; response.json();
\*                            return json.data?.[token.mint]?.price || null }
\*                      catch (e) { return null }
\* getPrice (script):   res 'end': try { resolve(json.data?.[mint]?.price) }
\*                                 catch (e) { resolve(null) };
\*                      req 'error': resolve(null); nothing else settles the promise
priceSettle(impl, ev) ==
    IF impl = "kit"
    THEN IF ev.kind = "response" /\ ev.body.shape = "price" /\ ev.body.price > 0
         THEN PriceOf(ev.body.price)
         ELSE NoPrice("null")
    ELSE CASE ev.kind = "transport" -> NoPrice("null")
           [] ev.kind = "aborted" -> PricePending
           [] ev.kind = "response" ->
                CASE ev.body.shape = "price" -> PriceOf(ev.body.price)
                  [] ev.body.shape \in {"noData", "noPrice"} -> NoPrice("undefined")
                  [] OTHER -> NoPrice("null")

IdlePl == [phase |-> "idle", impl |-> None, argv |-> <<>>, symbol |-> None,
           token |-> None,
           requests |-> 0, got |-> Event("silent", PriceBody("unparsable", 0)),
           promise |-> PricePending]

\* getTokenPrice(tokenSymbol) / getPrice(token) is called: unknown symbols return null
\* at once, otherwise the request to the price endpoint is issued
PriceStart ==
    /\ pl.phase = "idle"
    /\ \E impl \in ClientImpls, sym \in SymbolInputs :
         LET token == LookupToken(impl, sym) IN
         pl' = IF token = None
               THEN [IdlePl EXCEPT !.phase = "returned", !.impl = impl, !.symbol = sym,
                                   !.promise = NoPrice("null")]
               ELSE [IdlePl EXCEPT !.phase = "inflight", !.impl = impl, !.symbol = sym,
                                   !.token = token, !.requests = 1]
    /\ UNCHANGED <<walletVars, rpc, bal, qt, tx>>

\* words of a command line that start with `--`
OptionWords == {"--token"}

NoArgs == [positional |-> <<>>, token |-> None]

\* parseArgs(argv): a word starting with `--` is an option and takes the next word
\* as its value unless that is an option too (then its value is true); every other
\* word is pushed to args._ (cli.js treats words starting with a single `-` alike;
\* no command line here has one)
RECURSIVE parseArgsFrom(_, _, _)
parseArgsFrom(argv, i, args) ==
    IF i > Len(argv) THEN args
    ELSE IF argv[i] \in OptionWords
    THEN IF i < Len(argv) /\ argv[i + 1] \notin OptionWords
         THEN parseArgsFrom(argv, i + 2, [args EXCEPT !.token = argv[i + 1]])
         ELSE parseArgsFrom(argv, i + 1, [args EXCEPT !.token = "true"])
    ELSE parseArgsFrom(argv, i + 1,
                       [args EXCEPT !.positional = Append(args.positional, argv[i])])

parseArgs(argv) == parseArgsFrom(argv, 1, NoArgs)

\* process.argv.slice(2) of a price command
PriceArgvs == {<<"price">>, <<"price", "sol">>, <<"price", "bonk">>, <<"price", "doge">>,
               <<"price", "--token", "USDC">>}

\* the symbol commands.price looks up
\*   cli.js: args._[1]?.toUpperCase() || args.token?.toUpperCase() || 'SOL'
\*   script: args._?.[0]?.toUpperCase() || 'SOL'   (args._[0] is the command word)
priceSymbol(impl, args) ==
    IF impl = "kit"
    THEN IF Len(args.positional) >= 2 THEN toUpperCase(args.positional[2])
         ELSE IF args.token # None THEN toUpperCase(args.token)
         ELSE "SOL"
    ELSE IF Len(args.positional) >= 1 THEN toUpperCase(args.positional[1])
         ELSE "SOL"

\* main() runs commands.price(args), which calls getTokenPrice / getPrice with the
\* symbol it took from the arguments
PriceCommand ==
    /\ pl.phase = "idle"
    /\ \E impl \in ClientImpls, argv \in PriceArgvs :
         LET sym == priceSymbol(impl, parseArgs(argv))
             token == LookupToken(impl, sym)
         IN
         pl' = IF token = None
               THEN [IdlePl EXCEPT !.phase = "returned", !.impl = impl, !.argv = argv,
                                   !.symbol = sym, !.promise = NoPrice("null")]
               ELSE [IdlePl EXCEPT !.phase = "inflight", !.impl = impl, !.argv = argv,
                                   !.symbol = sym, !.token = token, !.requests = 1]
    /\ UNCHANGED <<walletVars, rpc, bal, qt, tx>>

\* the price provider answers, or the connection fails or closes early
PriceProviderDone ==
    /\ pl.phase = "inflight"
    /\ \E ev \in PriceEvents :
         pl' = [pl EXCEPT !.phase = "closed", !.got = ev,
                          !.promise = Settle(pl.promise, priceSettle(pl.impl, ev))]
    /\ UNCHANGED <<walletVars, rpc, bal, qt, tx>>

\* the next lookup
PriceReset ==
    /\ pl.phase \in {"returned", "closed"}
    /\ pl' = IdlePl
    /\ UNCHANGED <<walletVars, rpc, bal, qt, tx>>

(***************************************************************************)
(* JavaScript numbers.  A Number is an IEEE-754 binary64; amounts reach    *)
(* 10^9 times their display value, so naturals are kept as sequences of    *)
(* 15-bit limbs (least significant first, no leading zero limb) and a      *)
(* double is m * 2^e with m such a natural.                                *)
(***************************************************************************)
\* significand width of a binary64
SignificandBits == 53

\* width of a limb
LimbBits == 15

Base == 2 ^ LimbBits

\* scaling used to divide decimal literals: 2^64 / 10^k has more than 53 bits
ParseScale == 64

RECURSIVE Limbs(_)
Limbs(n) == IF n = 0 THEN <<>> ELSE <<n % Base>> \o Limbs(n \div Base)

RECURSIVE Trim(_)
Trim(b) == IF b = <<>> \/ b[Len(b)] # 0 THEN b ELSE Trim(SubSeq(b, 1, Len(b) - 1))

Limb(b, i) == IF 1 <= i /\ i <= Len(b) THEN b[i] ELSE 0

RECURSIVE BigAddFrom(_, _, _, _)
BigAddFrom(a, b, i, carry) ==
    IF i > Len(a) /\ i > Len(b)
    THEN IF carry = 1 THEN <<1>> ELSE <<>>
    ELSE LET s == Limb(a, i) + Limb(b, i) + carry
         IN  <<s % Base>> \o BigAddFrom(a, b, i + 1, s \div Base)

BigAdd(a, b) == BigAddFrom(a, b, 1, 0)

\* a * m for 0 <= m < Base
RECURSIVE MulSmallFrom(_, _, _, _)
MulSmallFrom(a, m, i, carry) ==
    IF i > Len(a)
    THEN Limbs(carry)
    ELSE LET s == a[i] * m + carry
         IN  <<s % Base>> \o MulSmallFrom(a, m, i + 1, s \div Base)

MulSmall(a, m) == Trim(MulSmallFrom(a, m, 1, 0))

\* a * Base^k
ShiftLimbs(a, k) == IF a = <<>> THEN <<>> ELSE [i \in 1..k |-> 0] \o a

\* a * b, with b = b[1] + Base * Tail(b)
RECURSIVE BigMul(_, _)
BigMul(a, b) ==
    IF b = <<>> THEN <<>>
    ELSE BigAdd(MulSmall(a, Head(b)), ShiftLimbs(BigMul(a, Tail(b)), 1))

\* long division of limbs a[1..i] (remainder r carried in) by a small integer m
RECURSIVE DivSmallFrom(_, _, _, _)
DivSmallFrom(a, m, i, r) ==
    IF i = 0 THEN [q |-> <<>>, r |-> r]
    ELSE LET cur == r * Base + a[i]
             rest == DivSmallFrom(a, m, i - 1, cur % m)
         IN  [q |-> rest.q \o <<cur \div m>>, r |-> rest.r]

DivSmall(a, m) ==
    LET d == DivSmallFrom(a, m, Len(a), 0) IN [q |-> Trim(d.q), r |-> d.r]

\* floor(a / 10^k), three decimal places at a time, and whether the division left a
\* remainder
RECURSIVE DivPow10(_, _)
DivPow10(a, k) ==
    IF k = 0 THEN [q |-> a, r |-> FALSE]
    ELSE LET step == IF k < 3 THEN k ELSE 3
             d == DivSmall(a, 10 ^ step)
         IN  IF d.r # 0 THEN [q |-> DivPow10(d.q, k - step).q, r |-> TRUE]
             ELSE DivPow10(d.q, k - step)

\* a < b, comparing limbs i, i - 1, ..., 1 of two naturals of equal length
RECURSIVE LessFrom(_, _, _)
LessFrom(a, b, i) ==
    IF i = 0 THEN FALSE
    ELSE IF a[i] # b[i] THEN a[i] < b[i]
    ELSE LessFrom(a, b, i - 1)

BigLess(a, b) == IF Len(a) # Len(b) THEN Len(a) < Len(b) ELSE LessFrom(a, b, Len(a))

\* a - b for a >= b
RECURSIVE BigSubFrom(_, _, _, _)
BigSubFrom(a, b, i, borrow) ==
    IF i > Len(a) THEN <<>>
    ELSE LET s == a[i] - Limb(b, i) - borrow
         IN  <<s % Base>> \o BigSubFrom(a, b, i + 1, IF s < 0 THEN 1 ELSE 0)

BigSub(a, b) == Trim(BigSubFrom(a, b, 1, 0))

\* number of bits of 0 <= n < Base
RECURSIVE SmallBitLen(_)
SmallBitLen(n) == IF n = 0 THEN 0 ELSE 1 + SmallBitLen(n \div 2)

BitLen(a) == IF a = <<>> THEN 0 ELSE LimbBits * (Len(a) - 1) + SmallBitLen(a[Len(a)])

\* floor(a / 2^t)
ShiftRight(a, t) ==
    LET q == t \div LimbBits
        r == t % LimbBits
    IN  IF q >= Len(a) THEN <<>>
        ELSE Trim([i \in 1..(Len(a) - q) |->
                     (a[i + q] \div (2 ^ r))
                     + (Limb(a, i + q + 1) % (2 ^ r)) * (2 ^ (LimbBits - r))])

\* a * 2^t
ShiftLeft(a, t) == ShiftLimbs(MulSmall(a, 2 ^ (t % LimbBits)), t \div LimbBits)

\* bit j (1 is the least significant) of a
TestBit(a, j) ==
    (Limb(a, ((j - 1) \div LimbBits) + 1) \div (2 ^ ((j - 1) % LimbBits))) % 2 = 1

\* a % 2^t # 0
LowBitsSet(a, t) ==
    \/ \E i \in 1..(t \div LimbBits) : Limb(a, i) # 0
    \/ Limb(a, (t \div LimbBits) + 1) % (2 ^ (t % LimbBits)) # 0

\* the decimal digits of a natural, most significant first (String(n))
RECURSIVE Decimal(_)
Decimal(a) ==
    IF a = <<>> THEN <<>>
    ELSE LET d == DivSmall(a, 10) IN Decimal(d.q) \o <<d.r>>

Double(m, e) == [m |-> m, e |-> e]

\* round the natural n (sticky: a non-zero fraction below it was cut off) to
\* SignificandBits significant bits, to nearest, ties to even
RoundBits(n, sticky) ==
    IF BitLen(n) <= SignificandBits THEN Double(n, 0)
    ELSE LET t == BitLen(n) - SignificandBits
             kept == ShiftRight(n, t)
             low == sticky \/ LowBitsSet(n, t - 1)
             up == TestBit(n, t) /\ (low \/ TestBit(kept, 1))
         IN  Double(IF up THEN BigAdd(kept, <<1>>) ELSE kept, t)

\* a decimal literal: digits / 10^scale; numeric = FALSE is text parseFloat
\* turns into NaN
Text(digits, scale) == [digits |-> digits, scale |-> scale, numeric |-> TRUE]

NotANumber == [digits |-> 0, scale |-> 0, numeric |-> FALSE]

One == Double(<<1>>, 0)

\* parseFloat(text): the double nearest to digits / 10^scale
parseFloat(text) ==
    LET d == DivSmall(ShiftLeft(Limbs(text.digits), ParseScale), 10 ^ text.scale)
        r == RoundBits(d.q, d.r # 0)
    IN  Double(r.m, r.e - ParseScale)

\* `!amount` of `const amount = parseFloat(args.amount)`: NaN and 0
NoAmount(text) == ~text.numeric \/ text.digits = 0

\* `parseFloat(args.amount) || 1`: NaN and 0 are falsy
parseAmount(text) ==
    IF NoAmount(text) THEN One ELSE parseFloat(text)

\* x * y on doubles
Times(x, y) ==
    LET r == RoundBits(BigMul(x.m, y.m), FALSE) IN Double(r.m, x.e + y.e + r.e)

\* Math.pow(10, decimals): exact for the decimal counts of the registry
pow10(decimals) == Double(Limbs(10 ^ decimals), 0)

\* Math.floor(x) for x >= 0
MathFloor(x) == IF x.e >= 0 THEN ShiftLeft(x.m, x.e) ELSE ShiftRight(x.m, 0 - x.e)

\* const amountLamports = Math.floor(amount * Math.pow(10, decimals))
toBaseUnits(amount, decimals) == MathFloor(Times(amount, pow10(decimals)))

\* the value of a few decimal digits (most significant first)
RECURSIVE DigitsValue(_)
DigitsValue(digits) ==
    IF digits = <<>> THEN 0
    ELSE 10 * DigitsValue(SubSeq(digits, 1, Len(digits) - 1)) + digits[Len(digits)]

\* parseInt(text) of a string of decimal digits, four digits at a time
RECURSIVE parseInt(_)
parseInt(digits) ==
    IF digits = <<>> THEN <<>>
    ELSE LET k == IF Len(digits) < 4 THEN Len(digits) ELSE 4
         IN  BigAdd(MulSmall(parseInt(SubSeq(digits, 1, Len(digits) - k)), 10 ^ k),
                    Limbs(DigitsValue(SubSeq(digits, Len(digits) - k + 1, Len(digits)))))

\* units / Math.pow(10, decimals): the double nearest to the quotient
fromBaseUnits(units, decimals) ==
    LET d == DivPow10(ShiftLeft(units, 2 * ParseScale), decimals)
        r == RoundBits(d.q, d.r)
    IN  Double(r.m, r.e - 2 * ParseScale)

(***************************************************************************)
(* Quote client and the quote / swap commands.                              *)
(***************************************************************************)
\* largest outAmount (base units) the quote provider answers with
MaxOutAmount == 2

\* TOKENS[symbol].decimals (the same in both registries)
Decimals(symbol) ==
    CASE symbol = "SOL" -> 9
      [] symbol = "BONK" -> 5
      [] OTHER -> 6

\* cliQuote     commands.quote of cli.js
\* cliSwap      commands.swap of cli.js: executeSwap -> buildSwapTransaction
\* scriptQuote  commands.quote of scripts/index.js
\* scriptSwap   commands.swap of scripts/index.js
\* raydiumQuote getSwapQuote(inputMint, outputMint, amount) of integrations/raydium.js
QuoteFlows == {"cliQuote", "cliSwap", "scriptQuote", "scriptSwap", "raydiumQuote"}

\* the decimal count a flow converts with: the commands and the swap builder read
\* TOKENS[symbol].decimals, getSwapQuote multiplies and divides by 1e9
QuoteDecimals(flow, symbol) == IF flow = "raydiumQuote" THEN 9 ELSE Decimals(symbol)

QuoteImpl(flow) == IF flow \in {"scriptQuote", "scriptSwap"} THEN "script" ELSE "kit"

\* values of --from / --to; None is an omitted option
QuoteSymbols == {None, "sol", "USDC", "bonk", "RAY", "doge"}

\* values of --amount; an omitted option parses to NaN
AmountTexts == {NotANumber, Text(0, 0), Text(1, 0), Text(41, 1), Text(29, 2)}

\* `args.from?.toUpperCase() || 'SOL'`
SymbolOr(arg, default) == IF arg = None THEN default ELSE toUpperCase(arg)

\* the JSON body of a quote response: an error payload { error: message } or a
\* quote { outAmount, routePlan, priceImpactPct }
QuoteBody(parses, error, hasOut, outAmount) ==
    [parses |-> parses, error |-> error, hasOut |-> hasOut, outAmount |-> outAmount]

QuoteMessages == {"No routes found"}

QuoteBodies ==
    {QuoteBody(FALSE, Missing, FALSE, 0)}
    \cup {QuoteBody(TRUE, m, FALSE, 0) : m \in QuoteMessages}
    \cup {QuoteBody(TRUE, Missing, TRUE, n) : n \in 0..MaxOutAmount}

\* what comes back for the GET: a response (ok = status 2xx) or a transport failure
QuoteEvent(kind, ok, body) == [kind |-> kind, ok |-> ok, body |-> body]

QuoteEvents ==
    {QuoteEvent("response", TRUE, b) : b \in QuoteBodies}
    \cup {QuoteEvent("response", FALSE, b) : b \in {c \in QuoteBodies : ~c.hasOut}}
    \cup {QuoteEvent("transport", FALSE, QuoteBody(FALSE, Missing, FALSE, 0))}

QuoteReturned(payload) == [st |-> "returned", error |-> Missing, payload |-> payload]

QuoteThrown(m) == [st |-> "thrown", error |-> m,
                   payload |-> QuoteBody(FALSE, Missing, FALSE, 0)]

\* the fetch of getSwapQuote: const quote = await response.json(), whatever the status
fetchQuote(ev) ==
    IF ev.kind = "transport" THEN QuoteThrown("TransportError")
    ELSE IF ~ev.body.parses THEN QuoteThrown("SyntaxError")
    ELSE QuoteReturned(ev.body)

\* getJupiterQuote (kit):    fetch; if (!response.ok) throw; return response.json()
\* getJupiterQuote (script): res 'end': try { resolve(JSON.parse(data)) }
\*                           catch (e) { reject(e) }; req 'error': reject
getJupiterQuote(impl, ev) ==
    IF ev.kind = "transport" THEN QuoteThrown("TransportError")
    ELSE IF impl = "kit" /\ ~ev.ok THEN QuoteThrown("Jupiter API error")
    ELSE IF ~ev.body.parses THEN QuoteThrown("SyntaxError")
    ELSE QuoteReturned(ev.body)

\* parseInt(quote.outAmount) / Math.pow(10, decimals); NaN without an outAmount
outAmountOf(payload, decimals) ==
    IF payload.hasOut THEN Num(payload.outAmount, 10 ^ decimals) ELSE NaN

QuoteFailed(m) == [st |-> "failed", error |-> m, outAmount |-> NaN]

Quoted(q) == [st |-> "quoted", error |-> Missing, outAmount |-> q]

NoOutcome == [st |-> "none", error |-> Missing, outAmount |-> NaN]

\* what the caller does with the quote: commands.quote of the script and getSwapQuote
\* test quote.error; every other caller goes on to compute the output
quoteOutcome(flow, outputToken, result) ==
    IF result.st = "thrown" THEN QuoteFailed(result.error)
    ELSE IF flow \in {"scriptQuote", "raydiumQuote"} /\ result.payload.error # Missing
    THEN QuoteFailed(result.payload.error)
    ELSE Quoted(outAmountOf(result.payload, QuoteDecimals(flow, outputToken)))

NoRequest == [inputMint |-> None, outputMint |-> None, amount |-> <<>>]

IdleQt == [phase |-> "idle", flow |-> None, from |-> None, to |-> None,
           text |-> NotANumber, requests |-> 0, request |-> NoRequest,
           got |-> QuoteEvent("transport", FALSE, QuoteBody(FALSE, Missing, FALSE, 0)),
           outcome |-> NoOutcome]

\* a precheck that tests the wallet only
quotePrecheckWalletOnly(flow, inputInfo, outputInfo) ==
    IF flow \in {"cliSwap", "scriptSwap"} /\ ~parsesWallet THEN "NoWallet" ELSE None

\* how a command ends before any request: without a wallet (swap), or with a symbol
\* that is not in the registry
quotePrecheck(flow, inputInfo, outputInfo) ==
    IF flow \in {"cliSwap", "scriptSwap"} /\ ~parsesWallet THEN "NoWallet"
    ELSE IF inputInfo # None /\ outputInfo # None THEN None
    ELSE IF flow = "scriptSwap" THEN "TypeError"   \* fromInfo.mint of undefined
    ELSE "UnknownToken"

\* quote / swap is invoked: the symbols are resolved, then the request is issued;
\* getSwapQuote is called with the mints of two registry tokens and a number
QuoteStart ==
    /\ qt.phase = "idle"
    /\ tx.phase = "idle"     \* one command per invocation
    /\ \E flow \in QuoteFlows, from \in QuoteSymbols, to \in QuoteSymbols,
          text \in AmountTexts :
         LET inputToken == SymbolOr(from, "SOL")
             outputToken == SymbolOr(to, "USDC")
             inputInfo == LookupToken(QuoteImpl(flow), inputToken)
             outputInfo == LookupToken(QuoteImpl(flow), outputToken)
             early == quotePrecheck(flow, inputInfo, outputInfo)
             started == [IdleQt EXCEPT !.flow = flow, !.from = inputToken,
                                       !.to = outputToken, !.text = text]
         IN  /\ flow = "raydiumQuote" =>
                  (from # None /\ to # None /\ early = None /\ ~NoAmount(text))
             /\ qt' = IF early # None
                     THEN [started EXCEPT !.phase = "done",
                                          !.outcome = QuoteFailed(early)]
                     ELSE [started EXCEPT
                             !.phase = "inflight", !.requests = 1,
                             !.request =
                                [inputMint |-> inputInfo, outputMint |-> outputInfo,
                                 amount |-> Decimal(toBaseUnits(parseAmount(text),
                                                QuoteDecimals(flow, inputInfo)))]]
    /\ UNCHANGED <<walletVars, rpc, pl, bal, tx>>

\* the quote provider answers, or the connection fails; the command prints and ends
QuoteProviderDone ==
    /\ qt.phase = "inflight"
    /\ \E ev \in QuoteEvents :
         qt' = [qt EXCEPT !.phase = "done", !.got = ev,
                          !.outcome =
                             quoteOutcome(qt.flow, qt.to,
                                          IF qt.flow = "raydiumQuote" THEN fetchQuote(ev)
                                          ELSE getJupiterQuote(QuoteImpl(qt.flow), ev))]
    /\ UNCHANGED <<walletVars, rpc, pl, bal, tx>>

\* the next command
QuoteReset ==
    /\ qt.phase = "done"
    /\ qt' = IdleQt
    /\ UNCHANGED <<walletVars, rpc, pl, bal, tx>>

(***************************************************************************)
(* Send and stake operations.                                              *)
(***************************************************************************)
\* cliSend             commands.send of cli.js: buildTransferTransaction, then
\*                     sendTransaction
\* scriptSend          commands.send of scripts/index.js
\* buildTokenTransfer  the token transfer builder of the transaction module
\* stakeSOL            stakeSOL of the Marinade integration
\* unstakeMSOL         unstakeMSOL of the Marinade integration
TxOps == {"cliSend", "scriptSend", "buildTokenTransfer", "stakeSOL", "unstakeMSOL"}

\* the address given with --to
Recipient == Address(MaxKeys + 2)

\* values of --to / params.to; NoAddress is an omitted option
SendTos == {NoAddress, Recipient}

\* values of --amount / amount; an omitted option parses to NaN
SendAmounts == {NotANumber, Text(0, 0), Text(1, 0)}

\* values of --token / params.token; None is an omitted option
SendTokens == {None, "sol", "USDC", "bonk", "doge"}

\* values of --memo; None is an omitted option
SendMemos == {None, "gm"}

NoTransaction == [type |-> None, from |-> NoAddress, to |-> NoAddress,
                  amount |-> NotANumber, token |-> None, memo |-> None,
                  status |-> None]

\* the object a builder returns
Transaction(type, from, to, amount, token, memo, status) ==
    [type |-> type, from |-> from, to |-> to, amount |-> amount, token |-> token,
     memo |-> memo, status |-> status]

NoSummary == [token |-> None, to |-> NoAddress, amount |-> NotANumber, memo |-> None]

\* the lines `Send: <amount> <token>`, `To:`, `Amount:`, `Memo:` a send command prints
Summary(token, to, amount, memo) ==
    [token |-> token, to |-> to, amount |-> amount, memo |-> memo]

\* requests: what the operation has sent
\*   getLatestBlockhash  client.getRecentBlockhash()
\*   quote               GET quote-api.jup.ag/v6/quote
\*   swap                POST quote-api.jup.ag/v6/swap { quoteResponse, userPublicKey }
IdleTx == [phase |-> "idle", op |-> None, to |-> NoAddress, amount |-> NotANumber,
           token |-> None, memo |-> None, summary |-> NoSummary,
           transaction |-> NoTransaction, requests |-> <<>>, result |-> None,
           outcome |-> None]

\* const transaction = { type: 'transfer', from: wallet.publicKey, to, amount,
\*                       token: 'SOL', memo, blockhash, status: 'built' }
buildTransferTransaction(to, amount, memo) ==
    Transaction("transfer", walletFile.publicKey, to, amount, "SOL", memo, "built")

\* const transaction = { type: 'token_transfer', from: wallet.publicKey, to, amount,
\*                       token: token.toUpperCase(), mint, decimals, memo, blockhash,
\*                       status: 'built' }
buildTokenTransfer(to, amount, token, memo) ==
    Transaction("token_transfer", walletFile.publicKey, to, amount, toUpperCase(token),
                memo, "built")

\* sendTransaction(transaction): prints SIMULATION MODE and the transaction, sends
\* nothing, returns { signature: 'SIMULATED_...', status: 'simulated' }
sendTransaction(requests) == [requests |-> requests, status |-> "simulated"]

\* send (either revision) up to its summary: the wallet check, the usage check
sendPrecheck(to, amount) ==
    IF ~parsesWallet THEN "NoWallet"
    ELSE IF to = NoAddress \/ NoAmount(amount) THEN "usage"
    ELSE None

\* buildTokenTransfer up to its blockhash lookup
tokenTransferPrecheck(token) ==
    IF ~parsesWallet THEN "NoWallet"
    ELSE IF token = None THEN "TypeError"      \* token.toUpperCase() of undefined
    ELSE IF LookupToken("kit", token) = None THEN "UnknownToken"
    ELSE None

\* a send command, a transfer builder or a stake helper is invoked
TxStart ==
    /\ tx.phase = "idle"
    /\ qt.phase = "idle"     \* one command per invocation
    /\ \E op \in TxOps, to \in SendTos, amount \in SendAmounts, token \in SendTokens,
          memo \in SendMemos :
         LET started == [IdleTx EXCEPT !.op = op, !.to = to, !.amount = amount,
                                       !.token = token, !.memo = memo]
             announced == [started EXCEPT !.summary = Summary(SymbolOr(token, "SOL"),
                                                              to, amount, memo)]
         IN
         CASE op \in {"cliSend", "scriptSend"} ->
                tx' = IF sendPrecheck(to, amount) # None
                      THEN [started EXCEPT !.phase = "done",
                                           !.outcome = sendPrecheck(to, amount)]
                      ELSE IF op = "scriptSend"
                      THEN [announced EXCEPT !.phase = "done", !.outcome = "printed",
                                             !.result = "simulated"]
                      ELSE [announced EXCEPT !.phase = "blockhash",
                                             !.requests = <<"getLatestBlockhash">>]
           [] op = "buildTokenTransfer" ->
                tx' = IF tokenTransferPrecheck(token) # None
                      THEN [started EXCEPT !.phase = "done",
                                           !.outcome = tokenTransferPrecheck(token)]
                      ELSE [started EXCEPT !.phase = "blockhash",
                                           !.requests = <<"getLatestBlockhash">>]
           [] OTHER ->   \* stakeSOL / unstakeMSOL(client, wallet, amount)
                /\ to = NoAddress /\ token = None /\ memo = None
                /\ ~NoAmount(amount)
                /\ parsesWallet
                /\ tx' = [started EXCEPT !.phase = "quote", !.requests = <<"quote">>]
    /\ UNCHANGED <<walletVars, rpc, pl, bal, qt>>

\* const blockhash = await client.getRecentBlockhash(): the lookup returns or raises;
\* the builder returns the transaction, and commands.send passes it to
\* sendTransaction
TxBlockhash ==
    /\ tx.phase = "blockhash"
    /\ \E ok \in BOOLEAN :
         tx' = IF ~ok
               THEN [tx EXCEPT !.phase = "done", !.outcome = "RpcError"]
               ELSE IF tx.op = "buildTokenTransfer"
               THEN [tx EXCEPT !.phase = "done", !.outcome = "built",
                               !.transaction = buildTokenTransfer(tx.to, tx.amount,
                                                                  tx.token, tx.memo)]
               ELSE LET sent == sendTransaction(tx.requests)
                    IN  [tx EXCEPT !.phase = "done", !.outcome = "printed",
                                   !.transaction = buildTransferTransaction(tx.to,
                                                       tx.amount, tx.memo),
                                   !.requests = sent.requests,
                                   !.result = sent.status]
    /\ UNCHANGED <<walletVars, rpc, pl, bal, qt>>

\* const quote = await quoteResponse.json(); if (quote.error) throw ...; then the
\* swap transaction is requested for wallet.publicKey
TxStakeQuote ==
    /\ tx.phase = "quote"
    /\ \E ev \in QuoteEvents :
         tx' = IF ev.kind = "transport" \/ ~ev.body.parses \/ ev.body.error # Missing
               THEN [tx EXCEPT !.phase = "done", !.outcome = "Failed to stake"]
               ELSE [tx EXCEPT !.phase = "swap",
                               !.requests = Append(tx.requests, "swap")]
    /\ UNCHANGED <<walletVars, rpc, pl, bal, qt>>

\* const swapData = await swapResponse.json();
\* return { quote, transaction: swapData.swapTransaction, message }
TxStakeSwap ==
    /\ tx.phase = "swap"
    /\ \E ok \in BOOLEAN :
         tx' = IF ~ok
               THEN [tx EXCEPT !.phase = "done", !.outcome = "Failed to stake"]
               ELSE [tx EXCEPT !.phase = "done", !.outcome = "returned",
                               !.transaction =
                                   Transaction("swap", walletFile.publicKey, NoAddress,
                                               tx.amount,
                                               IF tx.op = "stakeSOL" THEN "SOL" ELSE "MSOL",
                                               None, "unsigned")]
    /\ UNCHANGED <<walletVars, rpc, pl, bal, qt>>

\* the next operation
TxReset ==
    /\ tx.phase = "done"
    /\ tx' = IdleTx
    /\ UNCHANGED <<walletVars, rpc, pl, bal, qt>>

(***************************************************************************)
(* Balance aggregator.                                                     *)
(***************************************************************************)
\* getAllBalances (src/src/index.js), the balance command of src/src/cli.js and the
\* balance command of scripts/index.js, each without --token
Flows == {"getAllBalances", "cliBalance", "scriptBalance"}

FlowImpl(flow) == IF flow = "scriptBalance" THEN "script" ELSE "kit"

Min(a, b) == IF a < b THEN a ELSE b

\* Object.entries(TOKENS), as far as a run is followed
Registry(impl) == SubSeq(TOKENS(impl), 1, Min(RegistrySize, Len(TOKENS(impl))))

\* balance * price
Mul(a, b) == Num(a.num * b.num, a.den * b.den)

\* an entry whose value is computed whatever the price lookup returned
EntryValueAlways(symbol, balance, price) ==
    [token |-> symbol, balance |-> balance,
     price |-> price.price, hasPrice |-> price.absent = "no",
     value |-> Mul(balance, price.price), hasValue |-> TRUE]

\* { token, balance, price, value: price ? balance * price : null }
\* (the printed line `SYM: balance ($value)` of the commands)
Entry(symbol, balance, price) ==
    [token |-> symbol, balance |-> balance,
     price |-> price.price, hasPrice |-> price.absent = "no",
     value |-> IF Truthy(price) THEN Mul(balance, price.price) ELSE NaN,
     hasValue |-> Truthy(price)]

\* a loop that goes on to the price lookup whatever the balance
IncludeEntryAlways(symbol, balance) == TRUE

\* a report that drops every zero balance, the native one too
IncludeEntryPositiveOnly(symbol, balance) == Positive(balance)

\* the native entry is pushed unconditionally, a token entry only `if (balance > 0)`
IncludeEntry(symbol, balance) == symbol = "SOL" \/ Positive(balance)

\* a report built by prepending
PushFront(report, entry) == <<entry>> \o report

\* balances.push(entry) / console.log(line)
Push(report, entry) == Append(report, entry)

\* values of --token; None is an omitted option
TokenArgs == {None, "sol", "USDC", "bonk", "doge"}

\* an address given with --address (or to getAllBalances) instead of the wallet's
GivenAddress == Address(MaxKeys + 1)

IdleBal == [phase |-> "idle", flow |-> None, token |-> None, address |-> NoAddress,
            idx |-> 1, step |-> "balance",
            inflight |-> FALSE, current |-> Zero, report |-> <<>>,
            failed |-> {}, positive |-> {}, nativeFailed |-> FALSE, requests |-> <<>>]

BalImpl == FlowImpl(bal.flow)

\* the token being looked up: the requested one, else the loop's registry entry
BalSymbol == IF bal.token # None THEN bal.token ELSE Registry(BalImpl)[bal.idx]

\* the loop moves to the next registry entry, or the report is returned
NextToken(b) ==
    IF b.idx < Len(Registry(FlowImpl(b.flow)))
    THEN [b EXCEPT !.idx = b.idx + 1, !.step = "balance", !.inflight = FALSE]
    ELSE [b EXCEPT !.phase = "done", !.inflight = FALSE]

\* a command that goes on without a wallet
balanceModeAnyWallet(flow, token) ==
    IF token = None THEN "running"
    ELSE IF LookupToken(FlowImpl(flow), token) = None THEN "unknownToken"
    ELSE "single"

\* where a balance command goes after its arguments are read:
\*   noWallet      const wallet = loadWallet(); if (!wallet) { print guidance; return }
\*   unknownToken  if (!tokenInfo) { print; return }
\*   single        one token was asked for with --token
\*   running       all balances
balanceMode(flow, token) ==
    IF flow # "getAllBalances" /\ ~parsesWallet THEN "noWallet"
    ELSE IF token = None THEN "running"
    ELSE IF LookupToken(FlowImpl(flow), token) = None THEN "unknownToken"
    ELSE "single"

\* a balance run starts: getAllBalances(address), or the balance command with its
\* --token / --address options
BalStart ==
    /\ bal.phase = "idle"
    /\ \E flow \in Flows, token \in TokenArgs, given \in BOOLEAN :
         /\ flow = "getAllBalances" => (token = None /\ given)
         /\ bal' = [IdleBal EXCEPT
                      !.phase = balanceMode(flow, token),
                      !.flow = flow,
                      !.token = IF token = None THEN None ELSE toUpperCase(token),
                      !.address = IF given THEN GivenAddress ELSE walletFile.publicKey]
    /\ UNCHANGED <<walletVars, rpc, pl, qt, tx>>

\* the next awaited request is sent
BalIssue ==
    /\ bal.phase \in {"running", "single"}
    /\ ~bal.inflight
    /\ bal' = [bal EXCEPT !.inflight = TRUE,
                          !.requests = Append(bal.requests, <<bal.step, BalSymbol>>)]
    /\ UNCHANGED <<walletVars, rpc, pl, qt, tx>>

\* a --token report under the omit-zero rule of the all-balances loop
singleReportOmitZero(symbol, balance, price) ==
    IF Positive(balance) THEN <<Entry(symbol, balance, price)>> ELSE <<>>

\* the line a --token run prints, whatever the balance
singleReport(symbol, balance, price) == <<Entry(symbol, balance, price)>>

\* the balance lookup of a --token run:
\*   cli.js: client.getBalance(address) for SOL (a failure reaches the command's
\*           catch), client.getTokenBalance(address, tokenInfo.mint) otherwise
\*   script: getSolBalance(address) / getTokenBalance(address, tokenInfo.mint)
BalSingleBalance ==
    /\ bal.phase = "single" /\ bal.inflight
    /\ bal.step = "balance"
    /\ \E ev \in RpcEvents(IF bal.token = "SOL" THEN BalanceResults ELSE TokenResults) :
         LET promise == call(BalImpl, ev)
             out == IF bal.token = "SOL" THEN getBalance(BalImpl, promise)
                    ELSE getTokenBalance(BalImpl, promise)
             seen == [bal EXCEPT !.failed = IF LookupFailed(promise)
                                           THEN {bal.token} ELSE {}]
         IN bal' = CASE out.st = "pending" -> [bal EXCEPT !.phase = "stuck"]
                     [] out.st = "rejected" ->
                          [seen EXCEPT !.phase = "raised", !.inflight = FALSE]
                     [] out.st = "resolved" ->
                          [seen EXCEPT !.current = out.balance, !.step = "price",
                                       !.inflight = FALSE]
    /\ UNCHANGED <<walletVars, rpc, pl, qt, tx>>

\* const price = await getTokenPrice(token); console.log(`${token}: ${balance} ...`)
BalSinglePrice ==
    /\ bal.phase = "single" /\ bal.inflight
    /\ bal.step = "price"
    /\ \E ev \in PriceEvents :
         LET price == priceSettle(BalImpl, ev)
         IN bal' = IF price.st = "pending"
                   THEN [bal EXCEPT !.phase = "stuck"]
                   ELSE [bal EXCEPT !.phase = "done", !.inflight = FALSE,
                                    !.report = singleReport(bal.token, bal.current,
                                                            price)]
    /\ UNCHANGED <<walletVars, rpc, pl, qt, tx>>

\* const solBalance = await client.getBalance(address) / await getSolBalance(address)
BalNativeBalance ==
    /\ bal.phase = "running" /\ bal.inflight
    /\ bal.idx = 1 /\ bal.step = "balance"
    /\ \E ev \in RpcEvents(BalanceResults) :
         LET promise == call(BalImpl, ev)
             out == getBalance(BalImpl, promise)
         IN bal' = CASE out.st = "pending" -> [bal EXCEPT !.phase = "stuck"]
                     [] out.st = "rejected" ->
                          [bal EXCEPT !.phase = "raised", !.nativeFailed = TRUE,
                                      !.inflight = FALSE]
                     [] out.st = "resolved" ->
                          [bal EXCEPT !.current = out.balance, !.step = "price",
                                      !.nativeFailed = LookupFailed(promise),
                                      !.inflight = FALSE]
    /\ UNCHANGED <<walletVars, rpc, pl, qt, tx>>

\* const solPrice = await getTokenPrice('SOL'); balances.push({ token: 'SOL', ... })
BalNativePrice ==
    /\ bal.phase = "running" /\ bal.inflight
    /\ bal.idx = 1 /\ bal.step = "price"
    /\ \E ev \in PriceEvents :
         LET price == priceSettle(BalImpl, ev)
         IN bal' = IF price.st = "pending"
                   THEN [bal EXCEPT !.phase = "stuck"]
                   ELSE NextToken([bal EXCEPT !.report =
                            IF IncludeEntry("SOL", bal.current)
                            THEN Push(bal.report, Entry("SOL", bal.current, price))
                            ELSE bal.report])
    /\ UNCHANGED <<walletVars, rpc, pl, qt, tx>>

\* try { const balance = await client.getTokenBalance(address, info.mint);
\*       if (balance > 0) { ... } } catch (e) { /* skip */ }
\* (the script's loop has no try / catch of its own)
BalTokenBalance ==
    /\ bal.phase = "running" /\ bal.inflight
    /\ bal.idx > 1 /\ bal.step = "balance"
    /\ \E ev \in RpcEvents(TokenResults) :
         LET promise == call(BalImpl, ev)
             out == getTokenBalance(BalImpl, promise)
             seen == [bal EXCEPT !.failed = IF LookupFailed(promise)
                                           THEN bal.failed \cup {BalSymbol}
                                           ELSE bal.failed]
         IN bal' = CASE out.st = "pending" -> [bal EXCEPT !.phase = "stuck"]
                     [] out.st = "rejected" ->
                          IF bal.flow = "scriptBalance"
                          THEN [seen EXCEPT !.phase = "raised", !.inflight = FALSE]
                          ELSE NextToken(seen)
                     [] out.st = "resolved" ->
                          IF IncludeEntry(BalSymbol, out.balance)
                          THEN [seen EXCEPT !.current = out.balance, !.step = "price",
                                            !.inflight = FALSE,
                                            !.positive = IF Positive(out.balance)
                                                         THEN bal.positive \cup {BalSymbol}
                                                         ELSE bal.positive]
                          ELSE NextToken(seen)
    /\ UNCHANGED <<walletVars, rpc, pl, qt, tx>>

\* const price = await getTokenPrice(symbol); balances.push({ token: symbol, ... })
BalTokenPrice ==
    /\ bal.phase = "running" /\ bal.inflight
    /\ bal.idx > 1 /\ bal.step = "price"
    /\ \E ev \in PriceEvents :
         LET price == priceSettle(BalImpl, ev)
         IN bal' = IF price.st = "pending"
                   THEN [bal EXCEPT !.phase = "stuck"]
                   ELSE NextToken([bal EXCEPT !.report =
                            Push(bal.report, Entry(BalSymbol, bal.current, price))])
    /\ UNCHANGED <<walletVars, rpc, pl, qt, tx>>

(***************************************************************************)
(* Specifications: one per layer; the other layers stay idle.              *)
(***************************************************************************)
WalletInit ==
    /\ dirExists = FALSE
    /\ walletFile = NoWallet
    /\ configFile = NoConfig
    /\ pc = [p \in Procs |-> "idle"]
    /\ inv = [p \in Procs |-> IdleInv]
    /\ nextKey = 1
    /\ writes = <<>>

InitWallet ==
    /\ WalletInit
    /\ rpc = IdleRpc
    /\ pl = IdlePl
    /\ bal = IdleBal
    /\ qt = IdleQt
    /\ tx = IdleTx

WalletStep(overlap) ==
    \/ \E p \in Procs : StartInit(p, overlap)
    \/ \E p \in Procs : InitCheck(p)
    \/ \E p \in Procs : InitOpen(p)
    \/ \E p \in Procs : InitWrite(p)
    \/ \E p \in Procs : InitChmod(p)
    \/ \E p \in Procs : InitConfig(p)
    \/ \E p \in Procs : DeleteWallet(p, overlap)
    \/ \E p \in Procs : LoadWallet(p, overlap)
    \/ \E p \in Procs : LoadConfig(p, overlap)
    \/ SaveCustomConfig

\* CLI invocations that may run side by side (no file locking)
NextWallet == WalletStep(TRUE)

SpecWallet == InitWallet /\ [][NextWallet]_vars

\* CLI invocations one after the other
NextWalletSeq == WalletStep(FALSE)

SpecWalletSeq == InitWallet /\ [][NextWalletSeq]_vars

\* a balance run starts with or without a persisted wallet
Init ==
    /\ walletFile \in {NoWallet, WalletRecord(1, OwnerOnly)}
    /\ dirExists = (walletFile # NoWallet)
    /\ configFile = NoConfig
    /\ pc = [p \in Procs |-> "idle"]
    /\ inv = [p \in Procs |-> IdleInv]
    /\ nextKey = 2
    /\ writes = IF walletFile = NoWallet THEN <<>> ELSE <<1>>
    /\ rpc = IdleRpc
    /\ pl = IdlePl
    /\ bal = IdleBal
    /\ qt = IdleQt
    /\ tx = IdleTx

Next ==
    \/ BalStart
    \/ BalIssue
    \/ BalNativeBalance
    \/ BalNativePrice
    \/ BalTokenBalance
    \/ BalTokenPrice
    \/ BalSingleBalance
    \/ BalSinglePrice

Spec == Init /\ [][Next]_vars

\* every request is answered or fails, and the continuation of an awaited call runs
\* once the call has settled
SpecFair == Spec /\ WF_vars(Next)

InitRpc ==
    /\ WalletInit
    /\ rpc = IdleRpc
    /\ pl = IdlePl
    /\ bal = IdleBal
    /\ qt = IdleQt
    /\ tx = IdleTx

NextRpc ==
    \/ RpcStart
    \/ RpcRespond
    \/ RpcTransportError
    \/ RpcAborted
    \/ RpcTick
    \/ RpcTimeout
    \/ RpcDestroyError
    \/ RpcLateEvent

SpecRpc == InitRpc /\ [][NextRpc]_vars

NextPrice ==
    \/ PriceStart
    \/ PriceCommand
    \/ PriceProviderDone
    \/ PriceReset

SpecPrice == InitRpc /\ [][NextPrice]_vars

NextQuote ==
    \/ QuoteStart
    \/ QuoteProviderDone
    \/ QuoteReset

\* a quote / swap command starts with or without a persisted wallet
SpecQuote == Init /\ [][NextQuote]_vars

\* send, swap and stake invocations, one after the other
NextTx ==
    \/ TxStart
    \/ TxBlockhash
    \/ TxStakeQuote
    \/ TxStakeSwap
    \/ TxReset
    \/ QuoteStart
    \/ QuoteProviderDone
    \/ QuoteReset

SpecTx == Init /\ [][NextTx]_vars

(***************************************************************************)
(* Claims about the balance aggregator.                                    *)
(***************************************************************************)
ReportTokens == {bal.report[i].token : i \in 1..Len(bal.report)}

\* the run reports all balances (no --token)
AllBalances == bal.token = None

NonNative == {Registry(BalImpl)[i] : i \in 2..Len(Registry(BalImpl))}

\* position of a symbol in the registry
RegIndex(sym) == CHOOSE i \in 1..Len(TOKENS(BalImpl)) : TOKENS(BalImpl)[i] = sym

\* C1: in an all-balances run a failed lookup of a non-native token never makes the
\* run raise: the report is still returned, holds an entry for every token whose
\* lookup succeeded with a positive balance and none for a token whose lookup failed.
C1_TokenFailureIsolated ==
    /\ (AllBalances /\ bal.phase = "raised") => (bal.nativeFailed /\ bal.failed = {})
    /\ (AllBalances /\ bal.phase = "done") =>
          \A t \in NonNative :
             /\ t \in bal.failed => t \notin ReportTokens
             /\ (t \in bal.positive /\ t \notin bal.failed) => t \in ReportTokens

C1_Witness ==
    /\ bal.phase = "done"
    /\ AllBalances
    /\ bal.flow = "getAllBalances"
    /\ "USDC" \in bal.failed
    /\ "USDT" \in bal.positive
    /\ "USDT" \in ReportTokens
    /\ "USDC" \notin ReportTokens

\* the native lookup and the native price lookup are over
NativeDone ==
    AllBalances /\ (bal.phase = "done" \/ (bal.phase \in {"running", "stuck"} /\ bal.idx > 1))

\* C2: every all-balances report holds the native (SOL) entry, also when the native
\* balance is 0.
C2_NativeAlwaysReported ==
    NativeDone => (Len(bal.report) >= 1 /\ bal.report[1].token = "SOL")

C2_Witness ==
    /\ bal.phase = "done"
    /\ AllBalances
    /\ bal.report[1].token = "SOL"
    /\ bal.report[1].balance = Num(0, LAMPORTS_PER_SOL)
    /\ ~bal.nativeFailed

\* C3: in an all-balances run the SOL entry is first, the other entries follow in
\* registry order, each symbol at most once, and a non-native token is in the finished
\* report exactly when its looked-up balance is strictly positive.
C3_ReportInRegistryOrder ==
    AllBalances =>
    /\ \A i \in 1..Len(bal.report) : \A j \in 1..Len(bal.report) :
          i < j => RegIndex(bal.report[i].token) < RegIndex(bal.report[j].token)
    /\ \A i \in 1..Len(bal.report) : (bal.report[i].token = "SOL") = (i = 1)
    /\ bal.phase = "done" =>
          \A t \in NonNative : (t \in ReportTokens) = (t \in bal.positive)

C3_Witness ==
    /\ bal.phase = "done"
    /\ AllBalances
    /\ Len(bal.report) = 3
    /\ bal.report[1].token = "SOL"
    /\ bal.report[2].token = "USDC"
    /\ bal.report[3].token = "USDT"

\* where a request belongs in the sequence balance(SOL), price(SOL), balance(t2),
\* price(t2), ... over the registry in declaration order
Slot(request) == 2 * RegIndex(request[2]) - (IF request[1] = "balance" THEN 1 ELSE 0)

Requested(step, symbol) == \E i \in 1..Len(bal.requests) : bal.requests[i] = <<step, symbol>>

\* the requests sent so far follow the sequence, none twice, none skipped except
\* the price lookup of a non-native token whose balance is not strictly positive
RequestsInSequence ==
    /\ \A i \in 1..Len(bal.requests) : \A j \in 1..Len(bal.requests) :
          i < j => Slot(bal.requests[i]) < Slot(bal.requests[j])
    /\ Len(bal.requests) >= 1 => bal.requests[1] = <<"balance", "SOL">>
    /\ Len(bal.requests) >= 2 => bal.requests[2] = <<"price", "SOL">>
    /\ \A k \in 2..Len(Registry(BalImpl)) :
          Requested("balance", Registry(BalImpl)[k])
             => /\ Requested("balance", Registry(BalImpl)[k - 1])
                /\ Requested("price", Registry(BalImpl)[k - 1])
                      = (k = 2 \/ Registry(BalImpl)[k - 1] \in bal.positive)
    /\ \A t \in NonNative : Requested("price", t) => t \in bal.positive
    /\ bal.phase = "done" =>
          /\ \A k \in 1..Len(Registry(BalImpl)) : Requested("balance", Registry(BalImpl)[k])
          /\ \A t \in NonNative : Requested("price", t) = (t \in bal.positive)
    /\ Len(bal.requests) <= 2 * Len(Registry(BalImpl))

\* a request is sent only while none is in flight
IssuesOneAtATime ==
    Len(bal'.requests) > Len(bal.requests)
        => (~bal.inflight /\ bal'.inflight
            /\ Len(bal'.requests) = Len(bal.requests) + 1)

\* C25: an all-balances run is one sequential flow: it looks up the native balance,
\* then the native price, then for each non-native registry token in declaration
\* order its balance and, only if that is strictly positive, its price; at most one
\* request is in flight, no lookup is repeated, and when every request completes or
\* fails the run ends (with its report or by raising) after at most
\* 2 * (registry size) requests.
C25_SequentialRun ==
    /\ [](AllBalances => RequestsInSequence)
    /\ [][AllBalances' => IssuesOneAtATime]_vars
    /\ (AllBalances /\ bal.phase = "running")
          ~> (bal.phase \in {"done", "raised"}
              \/ bal.phase = "stuck")   \* a request that is never answered

C25_Witness ==
    /\ bal.phase = "done"
    /\ AllBalances
    /\ bal.requests = << <<"balance", "SOL">>, <<"price", "SOL">>, <<"balance", "USDC">>,
                         <<"balance", "USDT">>, <<"price", "USDT">> >>

\* C26: an entry has a value only if it has a price, and the value is balance * price;
\* an entry built from getTokenPrice (index.js, cli.js) that has a price has a value;
\* a price that is unavailable leaves the entry in the report, without a value.
\* (The line the script prints shows no price; for a quoted price of 0 it shows no
\* value.)
C26_ValueIffPrice ==
    /\ \A i \in 1..Len(bal.report) :
          LET entry == bal.report[i] IN
          /\ entry.hasValue =>
                (entry.hasPrice /\ entry.value = Mul(entry.balance, entry.price))
          /\ ~entry.hasValue => entry.value = NaN
          /\ (BalImpl = "kit" /\ entry.hasPrice) => entry.hasValue
    /\ (AllBalances /\ bal.phase = "done") =>
          /\ "SOL" \in ReportTokens
          /\ \A t \in NonNative : t \in bal.positive => t \in ReportTokens

\* a finished report with a priced entry and an entry whose price is unavailable
C26_Witness ==
    /\ bal.phase = "done"
    /\ bal.flow = "getAllBalances"
    /\ Len(bal.report) = 2
    /\ bal.report[1].hasPrice /\ bal.report[1].hasValue
    /\ bal.report[1].value = Num(MaxPrice, LAMPORTS_PER_SOL)
    /\ bal.report[2].token = "USDC"
    /\ ~bal.report[2].hasPrice /\ ~bal.report[2].hasValue

\* C28: in an all-balances run of getAllBalances or of the balance command of cli.js
\* whose native balance lookup fails, the run raises: no report is returned (no entry
\* for any token), the native balance lookup is the only request ever issued, and the
\* command ends in its catch, which prints the one error line.
C28_NativeFailureRaises ==
    (AllBalances /\ BalImpl = "kit" /\ bal.nativeFailed)
        => /\ bal.phase = "raised"
           /\ bal.report = <<>>
           /\ bal.requests = << <<"balance", "SOL">> >>

C28_Witness ==
    /\ AllBalances
    /\ bal.flow = "cliBalance"
    /\ bal.nativeFailed
    /\ bal.phase = "raised"
    /\ bal.requests = << <<"balance", "SOL">> >>

\* C14: with no wallet.json the balance command (either revision) prints the
\* "no wallet" guidance and ends: no RPC request and no price request is issued and
\* nothing is reported, whatever --token and --address are.
C14_NoWalletNoNetwork ==
    (bal.phase # "idle" /\ bal.flow # "getAllBalances" /\ walletFile.st = "absent")
        => /\ bal.phase = "noWallet"
           /\ bal.requests = <<>>
           /\ ~bal.inflight
           /\ bal.report = <<>>
           /\ rpc = IdleRpc
           /\ pl = IdlePl

C14_Witness ==
    /\ bal.phase = "noWallet"
    /\ bal.flow = "scriptBalance"
    /\ bal.token = "USDC"
    /\ bal.address = GivenAddress
    /\ walletFile.st = "absent"

\* a run for one token, asked for with --token
SingleToken == bal.token # None /\ bal.phase \notin {"idle", "noWallet", "unknownToken"}

\* C15 (as stated): a --token run for a registered token that has ended reports
\* exactly one entry.
C15_SingleTokenAlwaysReported ==
    (SingleToken /\ bal.phase \in {"done", "raised"}) => Len(bal.report) = 1

\* C15 (amended): a --token run for a registered token that completes reports
\* exactly one entry, for that token and with the looked-up quantity, also when the
\* quantity is 0; the only run that ends without an entry is `--token SOL` of cli.js
\* whose getBalance raised.
C15_SingleTokenReported ==
    /\ (SingleToken /\ bal.phase = "done")
          => /\ Len(bal.report) = 1
             /\ bal.report[1].token = bal.token
             /\ bal.report[1].balance = bal.current
    /\ (SingleToken /\ bal.phase = "raised")
          => (bal.token = "SOL" /\ bal.flow = "cliBalance" /\ bal.report = <<>>)

C15_Witness ==
    /\ bal.phase = "done"
    /\ bal.token = "USDC"
    /\ bal.failed = {}
    /\ Len(bal.report) = 1
    /\ bal.report[1].token = "USDC"
    /\ ~Positive(bal.report[1].balance)

(***************************************************************************)
(* Claims about the wallet store.                                          *)
(***************************************************************************)
AllIdle == \A p \in Procs : pc[p] = "idle"

\* invocation p takes its existence-check step while a wallet record is persisted
ChecksExisting(p) == pc[p] = "check" /\ pc'[p] # "check" /\ parsesWallet

\* C4: when a wallet record is persisted, an init (createWallet, importWallet, the init
\* command) ends with AlreadyExists and leaves wallet.json as it is; with invocations
\* run one after the other and no delete in between, wallet.json holds the record
\* written by the first successful init.
C4_InitKeepsExistingWallet ==
    /\ [][\A p \in Procs : ChecksExisting(p) =>
             /\ inv'[p].outcome = "AlreadyExists"
             /\ pc'[p] = "idle"
             /\ walletFile' = walletFile]_vars
    /\ [](writes # <<>> /\ parsesWallet => walletFile.secretKey = writes[1])
    /\ [](Len(writes) <= 1)

C4_Witness ==
    /\ AllIdle
    /\ parsesWallet
    /\ writes # <<>>
    /\ \E p \in Procs : inv[p].outcome = "AlreadyExists" /\ inv[p].op = "create"
    /\ \E p \in Procs : inv[p].outcome = "created" /\ inv[p].key = walletFile.secretKey

\* C5 (as claimed): when two inits race on a directory without a wallet, the first
\* writer wins: once both have finished, wallet.json holds the record written first,
\* and its address is the one reported to the invocation that wrote it.
C5_FirstWriterWins ==
    (/\ AllIdle
     /\ \A p \in Procs : inv[p].outcome = "created"
     /\ writes # <<>>)
    => /\ parsesWallet
       /\ walletFile.secretKey = writes[1]
       /\ \E p \in Procs : /\ inv[p].key = writes[1]
                            /\ inv[p].reported = walletFile.publicKey

\* invocation p takes a step that is the call op
Calls(p, op) == inv'[p].op = op /\ inv'[p] # inv[p]

\* C16: loadWallet returns the persisted record when wallet.json parses, signals
\* "absent" when there is no file, and signals CorruptState, not "absent", when the
\* file exists but does not parse.
C16_LoadWalletThreeOutcomes ==
    [][\A p \in Procs : Calls(p, "loadWallet") =>
          CASE walletFile.st = "record" ->
                 inv'[p].outcome = "record" /\ inv'[p].reported = walletFile.publicKey
            [] walletFile.st = "absent" -> inv'[p].outcome = "absent"
            [] OTHER -> inv'[p].outcome = "CorruptState"]_vars

\* invocation p ends an init with success
InitSucceeds(p) == pc[p] # "idle" /\ pc'[p] = "idle" /\ inv'[p].outcome = "created"

\* C17: when an init succeeds a config file exists afterwards, and a config that was
\* persisted before the init is left as it was.
C17_InitKeepsPersistedConfig ==
    [][\A p \in Procs : InitSucceeds(p) =>
          /\ configFile'.st = "record"
          /\ configFile.st = "record" => configFile' = configFile]_vars

\* C18: wallet.json never exists with partial content or with permissions broader
\* than owner read/write, the states between the steps of an init included.
C18_WalletFileAtomicOwnerOnly ==
    existsWallet => (walletFile.st = "record" /\ walletFile.mode = OwnerOnly)

\* C19: the config loadConfig returns has an RPC endpoint and a commitment whatever
\* config.json holds, and every field config.json holds keeps its value.
C19_LoadConfigMergesDefaults ==
    [][\A p \in Procs : Calls(p, "loadConfig") =>
          /\ inv'[p].config.rpc # Missing \/ inv'[p].config.rpcUrl # Missing
          /\ inv'[p].config.commitment # Missing
          /\ \A f \in ConfigFields :
                configFile[f] # Missing => inv'[p].config[f] = configFile[f]]_vars

\* C20: deleteWallet leaves no wallet.json and changes nothing else; without a
\* wallet.json it changes nothing and reports no error; after it every loadWallet
\* signals "absent", and an init that finds no wallet.json passes its existence
\* check and ends with the new record persisted.
C20_DeleteWalletIdempotent ==
    /\ [][\A p \in Procs : Calls(p, "delete") =>
             /\ walletFile' = NoWallet
             /\ UNCHANGED <<dirExists, configFile>>
             /\ inv'[p].outcome = (IF existsWallet THEN "deleted" ELSE "noop")
             /\ ~existsWallet => UNCHANGED walletFile
             /\ \A impl \in WalletImpls : loadWallet(impl, walletFile').st = "absent"]_vars
    /\ [][\A p \in Procs :
             /\ (pc[p] = "check" /\ pc'[p] # "check" /\ ~existsWallet /\ inv[p].validArg)
                   => pc'[p] = "open"
             /\ (pc[p] \in {"write", "config"} /\ pc'[p] = "idle")
                   => (inv'[p].outcome = "created" /\ walletFile'.st = "record"
                       /\ walletFile'.secretKey = inv[p].key)]_vars

\* a wallet was deleted, and deleted again
C20_Witness ==
    /\ inv["p1"].op = "delete" /\ inv["p1"].outcome = "deleted"
    /\ inv["p2"].op = "delete" /\ inv["p2"].outcome = "noop"
    /\ walletFile = NoWallet
    /\ dirExists

(***************************************************************************)
(* Claims about the RPC client.                                            *)
(***************************************************************************)
\* what the caller of getBalance / getTokenBalance / call has got so far
RpcReturned == WrapperOutcome(rpc.impl, rpc.wrapper, rpc.promise)

\* the response envelope that arrived carries a top-level error
EnvelopeHasError == rpc.got = "response" /\ rpc.body.parses /\ rpc.body.error = "object"

\* C6: when the response envelope carries a top-level error, call() fails with an
\* Error whose message is error.message and returns no result, also when the envelope
\* holds a result field as well.
C6_ErrorEnvelopeRejects ==
    EnvelopeHasError =>
        /\ rpc.promise.st = "rejected"
        /\ rpc.promise.message = ErrorMessage(rpc.body.message)
        /\ rpc.promise.value = NullResult

C6_Witness ==
    /\ EnvelopeHasError
    /\ rpc.body.message = "Too many requests"
    /\ rpc.body.result # NullResult
    /\ rpc.promise = Rejected("Too many requests")

\* C7 (as claimed): every RPC call is bounded by the 30-second timeout: no call is
\* still pending after the timeout has elapsed without an answer.
C7_CallBoundedByTimeout ==
    (rpc.phase = "inflight" /\ rpc.promise.st = "pending") => rpc.clock <= RPC_TIMEOUT

\* C8 (as claimed): getBalance and getTokenBalance propagate every network failure,
\* RPC error and decoding failure as an error, and never return a balance for a
\* failed lookup.
C8_LookupFailuresPropagate ==
    (/\ rpc.wrapper \in {"getBalance", "getTokenBalance"}
     /\ rpc.phase = "closed"
     /\ LookupFailed(rpc.promise))
    => RpcReturned.st = "rejected"

\* a getTokenAccountsByOwner response came back with a list of accounts
TokenAccountsReturned ==
    /\ rpc.wrapper = "getTokenBalance"
    /\ rpc.phase = "closed"
    /\ rpc.promise.st = "resolved"
    /\ rpc.promise.value.shape = "accounts"

\* C21: getTokenBalance returns 0 when the provider returns no token account for the
\* mint, and otherwise the parsed uiAmount of the first account (a null uiAmount
\* parses to 0 in index.js and to NaN in scripts/index.js): accounts after the first
\* are neither added nor looked at.
C21_FirstAccountOnly ==
    TokenAccountsReturned =>
        LET accounts == rpc.promise.value.accounts IN
        /\ RpcReturned.st = "resolved"
        /\ accounts = <<>> => RpcReturned.balance = Zero
        /\ accounts # <<>> =>
              RpcReturned.balance =
                 (IF accounts[1].isNull
                  THEN (IF rpc.impl = "kit" THEN Zero ELSE NaN)
                  ELSE Num(accounts[1].uiAmount, 1))

\* two accounts of the same mint, each holding a positive amount
C21_Witness ==
    /\ TokenAccountsReturned
    /\ Len(rpc.promise.value.accounts) = 2
    /\ rpc.promise.value.accounts[1] = [uiAmount |-> 1, isNull |-> FALSE]
    /\ rpc.promise.value.accounts[2] = [uiAmount |-> 1, isNull |-> FALSE]
    /\ RpcReturned = Returned(Num(1, 1))

UnregisteredSymbol ==
    /\ pl.phase # "idle"
    /\ toUpperCase(pl.symbol) \notin RegistrySymbols(pl.impl)

\* C9: getTokenPrice for a symbol that is not in the registry (compared
\* case-insensitively) returns null ("unavailable"), raises nothing and sends no
\* request to the price provider.
C9_UnknownSymbolUnavailable ==
    UnregisteredSymbol =>
        /\ pl.phase = "returned"
        /\ pl.promise = NoPrice("null")
        /\ pl.requests = 0

C9_Witness ==
    /\ UnregisteredSymbol
    /\ pl.symbol = "doge"
    /\ Unavailable(pl.promise)
    /\ pl.requests = 0

\* C10 (as claimed): getTokenPrice for a registered symbol never raises and never
\* stays pending because of the price provider: once the provider has answered, or
\* the connection has failed, the lookup has returned, and it has returned
\* "unavailable" unless the response held a price.
C10_PriceLookupAlwaysReturns ==
    pl.phase = "closed" =>
        /\ pl.promise.st = "resolved"
        /\ (Unavailable(pl.promise) \/
              (pl.got.kind = "response" /\ pl.got.body.shape = "price"))

\* C24 (as claimed): `price SYM` looks up the price of SYM, upper-cased, and the
\* default SOL is looked up only when no symbol is given.
C24_PriceLooksUpArgument ==
    /\ (Len(pl.argv) = 2 /\ pl.argv[2] \notin OptionWords)
          => pl.symbol = toUpperCase(pl.argv[2])
    /\ Len(pl.argv) = 1 => pl.symbol = "SOL"

(***************************************************************************)
(* Claims about the quote client.                                          *)
(***************************************************************************)
\* the provider's response parsed and carries an error field
QuoteErrorPayload == qt.got.kind = "response" /\ qt.got.body.parses
                     /\ qt.got.body.error # Missing

\* C11: whenever the quote provider's response carries an error field, the command
\* ends in a failure carrying that message and no output amount is computed from
\* the payload.
C11_QuoteErrorSurfaced ==
    (qt.phase = "done" /\ qt.requests = 1 /\ QuoteErrorPayload)
        => (qt.outcome.st = "failed" /\ qt.outcome.error = qt.got.body.error)

\* the amount the user asked for: `parseFloat(args.amount) || 1`
AmountAsked == IF ~qt.text.numeric \/ qt.text.digits = 0 THEN Text(1, 0) ELSE qt.text

\* floor(digits / 10^scale * 10^decimals) in exact arithmetic
ExactBaseUnits(text, decimals) ==
    IF decimals >= text.scale
    THEN BigMul(Limbs(text.digits), Limbs(10 ^ (decimals - text.scale)))
    ELSE DivSmall(Limbs(text.digits), 10 ^ (text.scale - decimals)).q

\* C12: the base-unit amount placed in a quote request equals
\* floor(amount * 10^decimals) for the amount the user specified and the decimal
\* count the request is built with.
C12_RequestAmountIsFloor ==
    qt.requests = 1
        => qt.request.amount =
              Decimal(ExactBaseUnits(AmountAsked, QuoteDecimals(qt.flow, qt.from)))

\* 0 <= x - y < 10^-decimals for doubles x and y, in exact arithmetic
WithinOneUnit(x, y, decimals) ==
    LET e0 == IF x.e < y.e THEN (IF x.e < 0 THEN x.e ELSE 0)
              ELSE (IF y.e < 0 THEN y.e ELSE 0)
        xs == ShiftLeft(x.m, x.e - e0)
        ys == ShiftLeft(y.m, y.e - e0)
    IN  /\ ~BigLess(xs, ys)
        /\ BigLess(BigMul(BigSub(xs, ys), Limbs(10 ^ decimals)), ShiftLeft(<<1>>, 0 - e0))

\* C22 (as claimed): for every registry token and display amount x, converting x to
\* base units with the token's decimal count (the amount of the quote request) and
\* back (division by 10^decimals) gives a display amount y with
\* 0 <= x - y < 10^-decimals.
C22_RoundTripWithinOneUnit ==
    qt.requests = 1
        => \E x \in {parseAmount(qt.text)}, units \in {parseInt(qt.request.amount)} :
             \E y \in {fromBaseUnits(units, QuoteDecimals(qt.flow, qt.from))} :
                WithinOneUnit(x, y, QuoteDecimals(qt.flow, qt.from))

\* C27 (as claimed): in every quote path the request amount is built with the
\* decimal count of the input token's descriptor and the quoted outAmount is
\* converted with the decimal count of the output token's descriptor.
C27_DescriptorDecimals ==
    /\ qt.requests = 1 =>
          qt.request.amount = Decimal(toBaseUnits(parseAmount(qt.text), Decimals(qt.from)))
    /\ (qt.phase = "done" /\ qt.outcome.st = "quoted" /\ qt.got.body.hasOut) =>
          qt.outcome.outAmount = Num(qt.got.body.outAmount, 10 ^ Decimals(qt.to))

\* the from symbol or the to symbol is not in the registry of the command's revision
QuoteUnregistered ==
    /\ qt.phase # "idle"
    /\ \/ qt.from \notin RegistrySymbols(QuoteImpl(qt.flow))
       \/ qt.to \notin RegistrySymbols(QuoteImpl(qt.flow))

\* C13: a quote or swap command given a from or to symbol that is not in the
\* registry ends in a failure without any request to the quote provider; the quote
\* commands and buildSwapTransaction (reached with a wallet) fail with UnknownToken.
C13_UnknownTokenBeforeNetwork ==
    QuoteUnregistered
        => /\ qt.phase = "done"
           /\ qt.requests = 0
           /\ qt.request = NoRequest
           /\ qt.outcome.st = "failed"
           /\ (qt.flow # "scriptSwap" /\ (qt.flow = "cliSwap" => parsesWallet))
                 => qt.outcome.error = "UnknownToken"

C13_Witness ==
    /\ qt.phase = "done"
    /\ qt.flow = "cliSwap"
    /\ qt.from = "DOGE"
    /\ qt.to = "DOGE"
    /\ qt.requests = 0
    /\ qt.outcome = QuoteFailed("UnknownToken")

(***************************************************************************)
(* Claims about the send and stake operations.                             *)
(***************************************************************************)
\* requests that only read: the blockhash lookup and the quote lookup
ReadOnlyLookups == {"getLatestBlockhash", "quote"}

\* C23 (as claimed): no send, swap or stake operation submits a transaction:
\* sendTransaction sends no request and returns status 'simulated', and whatever
\* the sequence of send / swap / stake invocations the only requests sent are the
\* read-only lookups (blockhash, quote); an operation returns no transaction for
\* signing, it prints what production code would do.
C23_OnlySimulated ==
    /\ \A i \in 1..Len(tx.requests) : tx.requests[i] \in ReadOnlyLookups
    /\ qt.requests <= 1
    /\ (tx.op = "cliSend" /\ tx.transaction # NoTransaction)
          => (tx.result = "simulated" /\ tx.requests = <<"getLatestBlockhash">>)
    /\ (tx.op \in {"cliSend", "scriptSend", "stakeSOL", "unstakeMSOL"}
        /\ tx.phase = "done")
          => (tx.outcome # "returned" /\ tx.transaction.status # "unsigned")

\* C30 (as claimed): for every send with a wallet and valid --to / --amount, the
\* transaction the send command builds carries the token symbol the command
\* announced in its summary (the --token value, SOL by default), and the same
\* recipient, amount and memo.
C30_SendCarriesAnnouncedToken ==
    (tx.op = "cliSend" /\ tx.transaction # NoTransaction)
        => /\ tx.transaction.token = tx.summary.token
           /\ tx.transaction.to = tx.summary.to
           /\ tx.transaction.amount = tx.summary.amount
           /\ tx.transaction.memo = tx.summary.memo

====
